---------------------------- MODULE Spec2Model ----------------------------
(***************************************************************************)
(* Model of scripts/parquet_to_bq_schema.py: the column-name validator,    *)
(* the Arrow -> BigQuery type mapping, BigQuerySchemaGenerator and the     *)
(* module-level generate_bigquery_schema_from_parquet; and of main and     *)
(* _wait_for_services of scripts/bigquery_emulator_external_table.py.      *)
(*                                                                         *)
(* Text is modelled character by character: a Python str is a sequence of  *)
(* one-character strings.  The backquote cannot be written inside a TLA+   *)
(* string literal, so that one character is written Backtick.              *)
(***************************************************************************)
EXTENDS Integers, Sequences, FiniteSets, TLC

VARIABLES
    pc,               \* what the last operation did
    column_name,      \* is_valid_column_name: the argument
    is_valid,         \* is_valid_column_name: first component of the result
    reason,           \* is_valid_column_name: second component of the result
    arrow_type,       \* get_bigquery_type: the argument
    bq_type,          \* get_bigquery_type: the result
    skipped_columns,  \* BigQuerySchemaGenerator.skipped_columns
    valid_columns,    \* BigQuerySchemaGenerator.valid_columns
    data_file,        \* the parquet file under test, as it lies on disk
    parquet_file,     \* the file the last call was given
    arrow_schema,     \* generate_schema: the schema read from the file
    bq_schema,        \* generate_schema: the list it returns
    first_call,       \* what the first returning generate_schema call was given and produced
    table_name,       \* generate_ddl / generate_bigquery_schema_from_parquet argument
    ddl,              \* generate_ddl: the string it returns
    summary,          \* what print_summary wrote
    outcome,          \* generate_bigquery_schema_from_parquet: value returned or exception raised
    keep_running,     \* main: args.keep_running
    use_regular_table,\* main: args.use_regular_table
    effects,          \* main: the emulator methods called and the requests and commands issued, in order
    delete_response,  \* cleanup_table called at line 426: what requests.delete gave
    retry_count,      \* _wait_for_services: retry_count
    polls,            \* _wait_for_services: polling rounds begun
    bq_response,      \* _wait_for_services: what the emulator's GET gave in the last round
    file_response     \* _wait_for_services: what the file server's GET gave in the last round

validatorVars == <<column_name, is_valid, reason>>
typeVars      == <<arrow_type, bq_type>>
generatorVars == <<skipped_columns, valid_columns, arrow_schema, bq_schema, first_call>>
argumentVars  == <<data_file, parquet_file, table_name>>
outputVars    == <<ddl, summary, outcome>>

mainVars      == <<keep_running, use_regular_table, effects, delete_response>>
waitVars      == <<retry_count, polls, bq_response, file_response>>
scriptVars    == <<mainVars, waitVars>>

vars == <<pc, validatorVars, typeVars, generatorVars, argumentVars, outputVars, scriptVars>>

-----------------------------------------------------------------------------
(* Characters and the str methods the code uses *)

Backtick == "bq"

LowerLetters == <<"a", "b", "c", "d", "e", "f", "g", "h", "i", "j", "k", "l", "m",
                  "n", "o", "p", "q", "r", "s", "t", "u", "v", "w", "x", "y", "z">>

UpperLetters == <<"A", "B", "C", "D", "E", "F", "G", "H", "I", "J", "K", "L", "M",
                  "N", "O", "P", "Q", "R", "S", "T", "U", "V", "W", "X", "Y", "Z">>

Digits == {"0", "1", "2", "3", "4", "5", "6", "7", "8", "9"}

Range(s) == {s[i] : i \in DOMAIN s}

\* str.isalpha on one character
isalpha(c) == c \in Range(LowerLetters) \cup Range(UpperLetters)

\* str.isalnum on one character
isalnum(c) == isalpha(c) \/ c \in Digits

\* one character of str.upper
UpperChar(c) ==
    IF c \in Range(LowerLetters)
    THEN UpperLetters[CHOOSE i \in DOMAIN LowerLetters : LowerLetters[i] = c]
    ELSE c

\* a wrong str.upper: leaves the name as it is
upper_identity(s) == s

\* str.upper
upper(s) == [i \in 1..Len(s) |-> UpperChar(s[i])]

\* str.startswith
startswith(s, prefix) ==
    /\ Len(s) >= Len(prefix)
    /\ \A i \in 1..Len(prefix) : s[i] = prefix[i]

-----------------------------------------------------------------------------
(* is_valid_column_name *)

MaxNameLen == 300

restricted_prefixes == <<
    <<"_", "P", "A", "R", "T", "I", "T", "I", "O", "N">>,
    <<"_", "T", "A", "B", "L", "E", "_">>,
    <<"_", "F", "I", "L", "E", "_">>,
    <<"_", "R", "O", "W", "_", "T", "I", "M", "E", "S", "T", "A", "M", "P">>,
    <<"_", "_", "R", "O", "O", "T", "_", "_">>,
    <<"_", "C", "O", "L", "I", "D", "E", "N", "T", "I", "F", "I", "E", "R">> >>

\* The reason string.  Its two interpolated values, len(column_name) and the
\* matched prefix, are kept beside the fixed text (0 and <<>> when absent).
Reason(text, len, prefix) == [text |-> text, len |-> len, prefix |-> prefix]

MsgNone      == ""
MsgEmpty     == "Empty column name"
MsgTooLong   == "Column name too long"
MsgPrefix    == "Column name starts with restricted prefix"
MsgFirstChar == "Column name must start with letter or underscore"
MsgChars     == "Column name contains invalid characters"

NoReason == Reason(MsgNone, 0, <<>>)

\* the restricted-prefix loop: the first prefix of the list the upper-cased
\* name starts with, 0 when the loop ends without returning
FirstPrefixHit(column_name_upper) ==
    LET hits == {k \in DOMAIN restricted_prefixes :
                    startswith(column_name_upper, restricted_prefixes[k])}
    IN  IF hits = {} THEN 0 ELSE CHOOSE k \in hits : \A j \in hits : k <= j

\* a wrong validator: the prefix loop runs before the length check
is_valid_column_name_prefix_first(name) ==
    LET hit == FirstPrefixHit(upper(name))
    IN  IF Len(name) = 0
        THEN [valid |-> FALSE, reason |-> Reason(MsgEmpty, 0, <<>>)]
        ELSE IF hit # 0
        THEN [valid |-> FALSE, reason |-> Reason(MsgPrefix, 0, restricted_prefixes[hit])]
        ELSE IF Len(name) > MaxNameLen
        THEN [valid |-> FALSE, reason |-> Reason(MsgTooLong, Len(name), <<>>)]
        ELSE IF ~(isalpha(name[1]) \/ name[1] = "_")
        THEN [valid |-> FALSE, reason |-> Reason(MsgFirstChar, 0, <<>>)]
        ELSE IF ~(\A i \in 1..Len(name) : isalnum(name[i]) \/ name[i] = "_")
        THEN [valid |-> FALSE, reason |-> Reason(MsgChars, 0, <<>>)]
        ELSE [valid |-> TRUE, reason |-> NoReason]

is_valid_column_name(name) ==
    IF Len(name) = 0
    THEN [valid |-> FALSE, reason |-> Reason(MsgEmpty, 0, <<>>)]
    ELSE IF Len(name) > MaxNameLen
    THEN [valid |-> FALSE, reason |-> Reason(MsgTooLong, Len(name), <<>>)]
    ELSE LET hit == FirstPrefixHit(upper(name))
         IN  IF hit # 0
             THEN [valid |-> FALSE,
                   reason |-> Reason(MsgPrefix, 0, restricted_prefixes[hit])]
             ELSE IF ~(isalpha(name[1]) \/ name[1] = "_")
             THEN [valid |-> FALSE, reason |-> Reason(MsgFirstChar, 0, <<>>)]
             ELSE IF ~(\A i \in 1..Len(name) : isalnum(name[i]) \/ name[i] = "_")
             THEN [valid |-> FALSE, reason |-> Reason(MsgChars, 0, <<>>)]
             ELSE [valid |-> TRUE, reason |-> NoReason]

-----------------------------------------------------------------------------
(* get_bigquery_type *)

\* An Arrow type is the sequence of its type names from the outside in: every
\* element but the last is a list type, whose value_type is the rest.  A leaf
\* is written as str() prints it.  The pa.types predicates test the outermost
\* type only.
is_timestamp(t)  == t[1] \in {"timestamp[s]", "timestamp[us]", "timestamp[ns, tz=UTC]"}
is_time(t)       == t[1] \in {"time32[ms]", "time64[us]"}
is_date(t)       == t[1] \in {"date32[day]", "date64[ms]"}
is_integer(t)    == t[1] \in {"int8", "int32", "int64", "uint16", "uint64"}
is_floating(t)   == t[1] \in {"halffloat", "float", "double"}
is_boolean(t)    == t[1] = "bool"
is_string(t)     == t[1] = "string"
is_unicode(t)    == is_string(t)
is_binary(t)     == t[1] = "binary"
is_list(t)       == t[1] = "list"
is_large_list(t) == t[1] = "large_list"
is_struct(t)     == t[1] = "struct"

\* arrow_type.value_type of a list type
value_type(t) == Tail(t)

BQ_TIMESTAMP == <<"T", "I", "M", "E", "S", "T", "A", "M", "P">>
BQ_TIME      == <<"T", "I", "M", "E">>
BQ_DATE      == <<"D", "A", "T", "E">>
BQ_INTEGER   == <<"I", "N", "T", "E", "G", "E", "R">>
BQ_FLOAT     == <<"F", "L", "O", "A", "T">>
BQ_BOOLEAN   == <<"B", "O", "O", "L", "E", "A", "N">>
BQ_STRING    == <<"S", "T", "R", "I", "N", "G">>
BQ_BYTES     == <<"B", "Y", "T", "E", "S">>
BQ_RECORD    == <<"R", "E", "C", "O", "R", "D">>
ARRAY_OPEN  == <<"A", "R", "R", "A", "Y", "<">>
ARRAY_CLOSE == <<">">>

\* a wrong mapping: the element type of a list is not mapped recursively, a
\* list inside a list falls to the default
get_bigquery_type_flat(t) ==
    LET scalar(u) ==
            IF is_timestamp(u) THEN BQ_TIMESTAMP
            ELSE IF is_time(u) THEN BQ_TIME
            ELSE IF is_date(u) THEN BQ_DATE
            ELSE IF is_integer(u) THEN BQ_INTEGER
            ELSE IF is_floating(u) THEN BQ_FLOAT
            ELSE IF is_boolean(u) THEN BQ_BOOLEAN
            ELSE IF is_string(u) \/ is_unicode(u) THEN BQ_STRING
            ELSE IF is_binary(u) THEN BQ_BYTES
            ELSE IF is_struct(u) THEN BQ_RECORD
            ELSE BQ_STRING
    IN  IF is_list(t) \/ is_large_list(t)
        THEN ARRAY_OPEN \o scalar(value_type(t)) \o ARRAY_CLOSE
        ELSE scalar(t)

RECURSIVE get_bigquery_type(_)
get_bigquery_type(t) ==
    IF is_timestamp(t) THEN BQ_TIMESTAMP
    ELSE IF is_time(t) THEN BQ_TIME
    ELSE IF is_date(t) THEN BQ_DATE
    ELSE IF is_integer(t) THEN BQ_INTEGER
    ELSE IF is_floating(t) THEN BQ_FLOAT
    ELSE IF is_boolean(t) THEN BQ_BOOLEAN
    ELSE IF is_string(t) \/ is_unicode(t) THEN BQ_STRING
    ELSE IF is_binary(t) THEN BQ_BYTES
    ELSE IF is_list(t) \/ is_large_list(t)
    THEN ARRAY_OPEN \o get_bigquery_type(value_type(t)) \o ARRAY_CLOSE
    ELSE IF is_struct(t) THEN BQ_RECORD
    ELSE BQ_STRING

\* str(arrow_type), as the rejection record keeps it
RECURSIVE str_type(_)
str_type(t) ==
    IF is_list(t) THEN "list<item: " \o str_type(value_type(t)) \o ">"
    ELSE IF is_large_list(t) THEN "large_list<item: " \o str_type(value_type(t)) \o ">"
    ELSE t[1]

-----------------------------------------------------------------------------
(* BigQuerySchemaGenerator.generate_schema *)

\* mode = 'NULLABLE' if field.nullable else 'REQUIRED', wrong way round
mode_of_swapped(field) == IF field.nullable THEN "REQUIRED" ELSE "NULLABLE"

\* mode = 'NULLABLE' if field.nullable else 'REQUIRED'
mode_of(field) == IF field.nullable THEN "NULLABLE" ELSE "REQUIRED"

\* the record appended to skipped_columns
rejection(field, why) == [name |-> field.name, reason |-> why, type |-> str_type(field.type)]

\* the dict appended to bq_schema
field_def(field) ==
    [name |-> field.name, type |-> get_bigquery_type(field.type), mode |-> mode_of(field)]

\* a wrong reset: bq_schema starts empty but the two tracking lists are kept
reset_tracking_kept(self) ==
    [skipped_columns |-> self.skipped_columns,
     valid_columns   |-> self.valid_columns,
     bq_schema       |-> <<>>]

\* self.skipped_columns = []; self.valid_columns = []; bq_schema = []
reset_tracking(self) ==
    [skipped_columns |-> <<>>, valid_columns |-> <<>>, bq_schema |-> <<>>]

\* a wrong loop body: the `continue` after recording a rejection is missing
process_field_no_continue(field, acc) ==
    LET v == is_valid_column_name(field.name)
        skipped == IF v.valid THEN acc.skipped_columns
                   ELSE Append(acc.skipped_columns, rejection(field, v.reason))
    IN  [skipped_columns |-> skipped,
         valid_columns   |-> Append(acc.valid_columns, field.name),
         bq_schema       |-> Append(acc.bq_schema, field_def(field))]

\* a wrong loop body: new entries are put at the front of the lists
process_field_front(field, acc) ==
    LET v == is_valid_column_name(field.name)
    IN  IF ~v.valid
        THEN [acc EXCEPT !.skipped_columns = <<rejection(field, v.reason)>> \o @]
        ELSE [acc EXCEPT !.bq_schema = <<field_def(field)>> \o @,
                         !.valid_columns = <<field.name>> \o @]

\* one iteration of `for field in arrow_schema`
process_field(field, acc) ==
    LET v == is_valid_column_name(field.name)
    IN  IF ~v.valid
        THEN [acc EXCEPT !.skipped_columns = Append(@, rejection(field, v.reason))]
        ELSE [acc EXCEPT !.bq_schema = Append(@, field_def(field)),
                         !.valid_columns = Append(@, field.name)]

\* the loop from field i on
RECURSIVE process_fields(_, _, _)
process_fields(schema, i, acc) ==
    IF i > Len(schema)
    THEN acc
    ELSE process_fields(schema, i + 1, process_field(schema[i], acc))

\* read_parquet_schema: the schema of a readable file, an exception otherwise
read_parquet_schema(file) ==
    IF file.readable
    THEN [raised |-> FALSE, schema |-> file.schema]
    ELSE [raised |-> TRUE, schema |-> <<>>]

\* generate_schema on a generator whose two lists are `self`: whether it
\* raised, the schema it read, the lists it leaves and the list it returns
generate_schema(self, file) ==
    LET read == read_parquet_schema(file)
    IN  IF read.raised
        THEN [raised |-> TRUE, arrow_schema |-> <<>>,
              skipped_columns |-> self.skipped_columns,
              valid_columns   |-> self.valid_columns,
              bq_schema       |-> <<>>]
        ELSE LET acc == process_fields(read.schema, 1, reset_tracking(self))
             IN  [raised |-> FALSE, arrow_schema |-> read.schema,
                  skipped_columns |-> acc.skipped_columns,
                  valid_columns   |-> acc.valid_columns,
                  bq_schema       |-> acc.bq_schema]

-----------------------------------------------------------------------------
(* print_summary, get_column_tuples, generate_ddl *)

\* A piece of printed or raised text: fixed text, and what an f-string puts
\* into it, a number or rejection records (0 and <<>> when absent).
Text(text)         == [kind |-> "text", text |-> text, count |-> 0, list |-> <<>>]
Number(text, n)    == [kind |-> "count", text |-> text, count |-> n, list |-> <<>>]
Detail(col)        == [kind |-> "rejection", text |-> "", count |-> 0, list |-> <<col>>]

\* print_summary: the two counts, then one line for each skipped column
print_summary(self) ==
    << Text("SCHEMA GENERATION SUMMARY"),
       Number("Valid columns: ", Len(self.valid_columns)),
       Number("Skipped columns: ", Len(self.skipped_columns)) >>
    \o (IF self.skipped_columns # <<>>
        THEN <<Text("Skipped columns details:")>>
             \o [i \in 1..Len(self.skipped_columns) |-> Detail(self.skipped_columns[i])]
        ELSE <<>>)

\* get_column_tuples
get_column_tuples(schema) == [i \in 1..Len(schema) |-> <<schema[i].name, schema[i].type>>]

\* sep.join(parts)
RECURSIVE join(_, _)
join(sep, parts) ==
    IF parts = <<>> THEN <<>>
    ELSE IF Len(parts) = 1 THEN parts[1]
    ELSE parts[1] \o sep \o join(sep, Tail(parts))

\* a wrong entry: NOT NULL is written whatever the mode
ddl_field_always_not_null(field) ==
    <<" ", " ", Backtick>> \o field.name \o <<Backtick, " ">> \o field.type
    \o <<" ", "N", "O", "T", " ", "N", "U", "L", "L">>

\* one entry of field_definitions
ddl_field(field) ==
    <<" ", " ", Backtick>> \o field.name \o <<Backtick, " ">> \o field.type
    \o (IF field.mode = "REQUIRED"
        THEN <<" ", "N", "O", "T", " ", "N", "U", "L", "L">>
        ELSE <<>>)

\* generate_ddl
generate_ddl(schema, table) ==
    LET header == <<"C", "R", "E", "A", "T", "E", " ", "T", "A", "B", "L", "E", " ", Backtick>>
                  \o table \o <<Backtick, " ", "(">>
        field_definitions == [i \in 1..Len(schema) |-> ddl_field(schema[i])]
        ddl_lines == <<header, join(<<",", "\n">>, field_definitions), <<")", ";">> >>
    IN  join(<<"\n">>, ddl_lines)

-----------------------------------------------------------------------------
(* generate_bigquery_schema_from_parquet *)

\* a wrong test: the empty schema is let through
not_schema_never(schema) == FALSE

\* `if not schema`
not_schema(schema) == schema = <<>>

ErrorReading    == Text("Error reading parquet file")
ErrorNoColumns  == Text("No valid columns found! All columns were skipped.")
ErrorGenerating == Text("Error generating schema: ")

\* The whole function on a generator of its own: the generator's lists when
\* it ends, what print_summary wrote, and the tuple returned or the exception
\* raised.  The exception is the text of its message, re-raised by the
\* handler with 'Error generating schema: ' in front.
generate_bigquery_schema_from_parquet(file, table) ==
    LET generator == [skipped_columns |-> <<>>, valid_columns |-> <<>>]
        r == generate_schema(generator, file)
        base == [arrow_schema |-> r.arrow_schema, skipped_columns |-> r.skipped_columns,
                 valid_columns |-> r.valid_columns, bq_schema |-> r.bq_schema]
    IN  IF r.raised
        THEN base @@ [summary |-> <<>>, ddl |-> <<>>,
                      outcome |-> [status |-> "raised", ddl |-> <<>>, column_tuples |-> <<>>,
                                   error |-> <<ErrorGenerating, ErrorReading>>]]
        ELSE IF not_schema(r.bq_schema)
        THEN base @@ [summary |-> print_summary(r), ddl |-> <<>>,
                      outcome |-> [status |-> "raised", ddl |-> <<>>, column_tuples |-> <<>>,
                                   error |-> <<ErrorGenerating, ErrorNoColumns>>]]
        ELSE LET ddl_statement == generate_ddl(r.bq_schema, table)
             IN  base @@ [summary |-> print_summary(r), ddl |-> ddl_statement,
                          outcome |-> [status |-> "returned", ddl |-> ddl_statement,
                                       column_tuples |-> get_column_tuples(r.bq_schema),
                                       error |-> <<>>]]

-----------------------------------------------------------------------------
(* The state before any operation has run *)

NoOutcome == [status |-> "none", ddl |-> <<>>, column_tuples |-> <<>>, error |-> <<>>]

NoCall == [made |-> FALSE, others |-> FALSE, schema |-> <<>>, bq_schema |-> <<>>,
           skipped_columns |-> <<>>, valid_columns |-> <<>>]

NoValidation ==
    /\ column_name = <<>>
    /\ is_valid = FALSE
    /\ reason = NoReason

NoMapping ==
    /\ arrow_type = <<"null">>
    /\ bq_type = <<>>

NoFile == [readable |-> FALSE, schema |-> <<>>]

\* BigQuerySchemaGenerator.__init__, with generate_schema not yet called
NewGenerator ==
    /\ skipped_columns = <<>>
    /\ valid_columns = <<>>
    /\ arrow_schema = <<>>
    /\ bq_schema = <<>>
    /\ first_call = NoCall

NoArguments ==
    /\ data_file = NoFile
    /\ parquet_file = NoFile
    /\ table_name = <<>>

NoOutput ==
    /\ ddl = <<>>
    /\ summary = <<>>
    /\ outcome = NoOutcome

\* main not started, _wait_for_services not called
NoWait ==
    /\ retry_count = 0
    /\ polls = 0
    /\ bq_response = "none"
    /\ file_response = "none"

NoMain ==
    /\ keep_running = FALSE
    /\ use_regular_table = FALSE
    /\ effects = <<>>
    /\ delete_response = "none"

NoScript == NoMain /\ NoWait

-----------------------------------------------------------------------------
(* The validator on its own: names given to is_valid_column_name *)

MaxTail == 2

TailChars == {"a", "Z", "_", "7", "-"}

Tails == UNION {[1..k -> TailChars] : k \in 0..MaxTail}

LowerChar(c) ==
    IF c \in Range(UpperLetters)
    THEN LowerLetters[CHOOSE i \in DOMAIN UpperLetters : UpperLetters[i] = c]
    ELSE c

lower(s) == [i \in 1..Len(s) |-> LowerChar(s[i])]

\* every other letter in lower case
MixedCase(s) == [i \in 1..Len(s) |-> IF i % 2 = 0 THEN LowerChar(s[i]) ELSE s[i]]

Heads ==
    Range(restricted_prefixes)
    \cup {lower(p) : p \in Range(restricted_prefixes)}
    \cup {MixedCase(p) : p \in Range(restricted_prefixes)}
    \cup { <<>>,
           <<"i", "d">>,
           <<"1", "a">>,
           <<"_">>,
           <<"_", "P", "A", "R", "T", "I", "T", "I", "O">>,
           <<"_", "T", "A", "B", "L", "E">>,
           <<"X", "_", "F", "I", "L", "E", "_">> }

Pad(n) == [i \in 1..n |-> "x"]

\* short names, and names filled up to exactly MaxNameLen and MaxNameLen + 1 characters
Names ==
    {h \o t : h \in Heads, t \in Tails}
    \cup {h \o Pad(n - Len(h) - Len(t)) \o t :
            h \in Heads, t \in Tails, n \in {MaxNameLen, MaxNameLen + 1}}

InitValidate ==
    /\ pc = "start"
    /\ column_name \in Names
    /\ is_valid = FALSE
    /\ reason = NoReason
    /\ NoMapping
    /\ NewGenerator
    /\ NoArguments
    /\ NoOutput
    /\ NoScript

ValidateName ==
    /\ pc = "start"
    /\ is_valid' = is_valid_column_name(column_name).valid
    /\ reason' = is_valid_column_name(column_name).reason
    /\ pc' = "validated"
    /\ UNCHANGED <<column_name, typeVars, generatorVars, argumentVars, outputVars, scriptVars>>

NextValidate == ValidateName

SpecValidate == InitValidate /\ [][NextValidate]_vars

-----------------------------------------------------------------------------
(* The five rules of the validator, each stated on the name alone *)

EqualIgnoringCase(a, b) == LowerChar(a) = LowerChar(b)

BeginsWithIgnoringCase(name, prefix) ==
    /\ Len(name) >= Len(prefix)
    /\ \A i \in 1..Len(prefix) : EqualIgnoringCase(name[i], prefix[i])

RestrictedPrefixesOf(name) ==
    {p \in Range(restricted_prefixes) : BeginsWithIgnoringCase(name, p)}

ViolatesRule1(name) == name = <<>>
ViolatesRule2(name) == Len(name) > MaxNameLen
ViolatesRule3(name) == RestrictedPrefixesOf(name) # {}
ViolatesRule4(name) == name # <<>> /\ ~(isalpha(name[1]) \/ name[1] = "_")
ViolatesRule5(name) == \E i \in 1..Len(name) : ~(isalnum(name[i]) \/ name[i] = "_")

FirstViolatedRule(name) ==
    IF ViolatesRule1(name) THEN 1
    ELSE IF ViolatesRule2(name) THEN 2
    ELSE IF ViolatesRule3(name) THEN 3
    ELSE IF ViolatesRule4(name) THEN 4
    ELSE IF ViolatesRule5(name) THEN 5
    ELSE 0

RuleMessage(rule) ==
    CASE rule = 0 -> MsgNone
      [] rule = 1 -> MsgEmpty
      [] rule = 2 -> MsgTooLong
      [] rule = 3 -> MsgPrefix
      [] rule = 4 -> MsgFirstChar
      [] rule = 5 -> MsgChars

\* C3: the reason is_valid_column_name returns is that of the first of the
\* five rules (non-empty, at most 300 characters, no restricted prefix, first
\* character a letter or underscore, only alphanumerics and underscores) the
\* name violates, and the name is valid exactly when it violates none.
C3_FirstViolatedRuleWins ==
    pc = "validated" =>
        /\ is_valid <=> FirstViolatedRule(column_name) = 0
        /\ reason.text = RuleMessage(FirstViolatedRule(column_name))
        /\ FirstViolatedRule(column_name) = 2 => reason.len = Len(column_name)
        /\ FirstViolatedRule(column_name) = 3 =>
               reason.prefix \in RestrictedPrefixesOf(column_name)

\* a name that breaks rules 2, 3 and 5 at once is reported as too long
C3_Witness ==
    /\ pc = "validated"
    /\ ViolatesRule2(column_name)
    /\ ViolatesRule3(column_name)
    /\ ViolatesRule5(column_name)
    /\ ~is_valid
    /\ reason.text = MsgTooLong

\* C4 as claimed: every name that begins, ignoring case, with a restricted
\* prefix is rejected with a reason naming that prefix, whatever its length
\* and its other characters.
C4_PrefixRejectedAtAnyLength ==
    pc = "validated" =>
        \A p \in RestrictedPrefixesOf(column_name) :
            ~is_valid /\ reason.text = MsgPrefix /\ reason.prefix = p

\* C4 as amended: every name of at most 300 characters that begins, ignoring
\* case, with a restricted prefix is rejected with a reason naming that
\* prefix, whatever its other characters.
C4_PrefixRejectedUpToMaxLen ==
    (pc = "validated" /\ Len(column_name) <= MaxNameLen) =>
        \A p \in RestrictedPrefixesOf(column_name) :
            ~is_valid /\ reason.text = MsgPrefix /\ reason.prefix = p

\* a lower-case prefix, exactly 300 characters, an invalid character at the end
C4_Witness ==
    /\ pc = "validated"
    /\ Len(column_name) = MaxNameLen
    /\ BeginsWithIgnoringCase(column_name, restricted_prefixes[3])
    /\ column_name[2] = "f"
    /\ column_name[Len(column_name)] = "-"
    /\ ~is_valid
    /\ reason.prefix = restricted_prefixes[3]

-----------------------------------------------------------------------------
(* The type mapping on its own: types given to get_bigquery_type *)

MaxListDepth == 2

LeafTypes ==
    {"timestamp[s]", "timestamp[us]", "timestamp[ns, tz=UTC]", "time32[ms]",
     "time64[us]", "date32[day]", "date64[ms]", "int8", "int32", "int64", "uint16",
     "uint64", "halffloat", "float", "double", "bool", "string", "binary", "struct",
     "large_string", "large_binary", "fixed_size_binary[4]", "decimal128(10, 2)",
     "null", "duration[s]", "map<string, int32>", "fixed_size_list<item: int8>[2]",
     "dictionary<values=string, indices=int32>"}

ListTypes == {"list", "large_list"}

ArrowTypes ==
    {outer \o <<leaf>> :
        outer \in UNION {[1..k -> ListTypes] : k \in 0..MaxListDepth},
        leaf \in LeafTypes}

InitType ==
    /\ pc = "start"
    /\ arrow_type \in ArrowTypes
    /\ bq_type = <<>>
    /\ NoValidation
    /\ NewGenerator
    /\ NoArguments
    /\ NoOutput
    /\ NoScript

MapType ==
    /\ pc = "start"
    /\ bq_type' = get_bigquery_type(arrow_type)
    /\ pc' = "mapped"
    /\ UNCHANGED <<validatorVars, arrow_type, generatorVars, argumentVars, outputVars, scriptVars>>

NextType == MapType

SpecType == InitType /\ [][NextType]_vars

\* the source type variants the mapping table names, by the printed name of a leaf
VariantOf(leaf) ==
    CASE leaf \in {"timestamp[s]", "timestamp[us]", "timestamp[ns, tz=UTC]"} -> "timestamp"
      [] leaf \in {"time32[ms]", "time64[us]"} -> "time"
      [] leaf \in {"date32[day]", "date64[ms]"} -> "date"
      [] leaf \in {"int8", "int32", "int64", "uint16", "uint64"} -> "integer"
      [] leaf \in {"halffloat", "float", "double"} -> "float"
      [] leaf = "bool" -> "boolean"
      [] leaf = "string" -> "string"
      [] leaf = "binary" -> "binary"
      [] leaf = "struct" -> "struct"
      [] OTHER -> "other"

TargetOf(variant) ==
    CASE variant = "timestamp" -> BQ_TIMESTAMP
      [] variant = "time" -> BQ_TIME
      [] variant = "date" -> BQ_DATE
      [] variant = "integer" -> BQ_INTEGER
      [] variant = "float" -> BQ_FLOAT
      [] variant = "boolean" -> BQ_BOOLEAN
      [] variant = "string" -> BQ_STRING
      [] variant = "binary" -> BQ_BYTES
      [] variant = "struct" -> BQ_RECORD
      [] variant = "other" -> BQ_STRING

\* number of list levels around the leaf
ListDepth(t) == Len(t) - 1

RECURSIVE Repeat(_, _)
Repeat(s, n) == IF n = 0 THEN <<>> ELSE s \o Repeat(s, n - 1)

\* C9: get_bigquery_type answers for every type; a leaf maps by the table
\* (timestamp to TIMESTAMP, time to TIME, date to DATE, integer to INTEGER,
\* float to FLOAT, boolean to BOOLEAN, string to STRING, binary to BYTES, struct
\* to RECORD, anything else to STRING) and each list level around it, at any depth, adds one 'ARRAY<' in
\* front and one '>' behind.
C9_TypeMapping ==
    pc = "mapped" =>
        bq_type = Repeat(ARRAY_OPEN, ListDepth(arrow_type))
                    \o TargetOf(VariantOf(arrow_type[Len(arrow_type)]))
                    \o Repeat(ARRAY_CLOSE, ListDepth(arrow_type))

\* a list of large lists of structs maps to ARRAY<ARRAY<RECORD>>
C9_Witness ==
    /\ pc = "mapped"
    /\ arrow_type = <<"list", "large_list", "struct">>
    /\ bq_type = ARRAY_OPEN \o ARRAY_OPEN \o BQ_RECORD \o ARRAY_CLOSE \o ARRAY_CLOSE

-----------------------------------------------------------------------------
(* One generator instance, generate_schema called on it again and again *)

MaxFields == 3

Field(name, type, nullable) == [name |-> name, type |-> type, nullable |-> nullable]

\* the columns a file may hold
Columns ==
    { Field(<<"i", "d">>, <<"int64">>, FALSE),
      Field(<<"t", "a", "g", "s">>, <<"list", "string">>, TRUE),
      Field(<<"_", "p", "a", "r", "t", "i", "t", "i", "o", "n", "_", "d", "a", "t", "e">>,
            <<"date32[day]">>, TRUE),
      Field(<<>>, <<"int32">>, TRUE),
      Field(<<"a", "-", "b">>, <<"struct">>, FALSE),
      Field(<<"1", "a">>, <<"large_list", "double">>, FALSE) }

Schemas == UNION {[1..k -> Columns] : k \in 0..MaxFields}

ReadableFile(schema) == [readable |-> TRUE, schema |-> schema]

\* a path that cannot be read as parquet
MissingFile == NoFile

\* two files that are always there: one with clean columns only, one mixed
CleanFile ==
    ReadableFile(<< Field(<<"i", "d">>, <<"int64">>, FALSE),
                    Field(<<"t", "a", "g", "s">>, <<"list", "string">>, TRUE) >>)

ProblematicFile ==
    ReadableFile(<< Field(<<"_", "p", "a", "r", "t", "i", "t", "i", "o", "n", "_", "d", "a", "t", "e">>,
                          <<"date32[day]">>, TRUE),
                    Field(<<"i", "d">>, <<"int64">>, FALSE),
                    Field(<<"a", "-", "b">>, <<"struct">>, FALSE) >>)

\* The files a call may name: the file under test, whose schema is any of
\* Schemas, the two fixed files, and the unreadable path.
FilesAt(file) == {file, CleanFile, ProblematicFile, MissingFile}

Init ==
    /\ pc = "new"
    /\ data_file \in {ReadableFile(schema) : schema \in Schemas}
    /\ parquet_file = NoFile
    /\ table_name = <<>>
    /\ NewGenerator
    /\ NoValidation
    /\ NoMapping
    /\ NoOutput
    /\ NoScript

\* what the first returning call was given and produced, and whether a call
\* on another file, or one that raised, has followed it
NoteCall(file, r) ==
    IF ~first_call.made
    THEN IF r.raised
         THEN first_call
         ELSE [made |-> TRUE, others |-> FALSE, schema |-> r.arrow_schema,
               bq_schema |-> r.bq_schema, skipped_columns |-> r.skipped_columns,
               valid_columns |-> r.valid_columns]
    ELSE IF r.raised \/ r.arrow_schema # first_call.schema
         THEN [first_call EXCEPT !.others = TRUE]
         ELSE first_call

\* generator.generate_schema(file)
GenerateSchema(file) ==
    LET r == generate_schema([skipped_columns |-> skipped_columns,
                              valid_columns |-> valid_columns], file)
    IN  /\ pc \in {"new", "returned", "raised"}
        /\ parquet_file' = file
        /\ arrow_schema' = r.arrow_schema
        /\ skipped_columns' = r.skipped_columns
        /\ valid_columns' = r.valid_columns
        /\ bq_schema' = r.bq_schema
        /\ first_call' = NoteCall(file, r)
        /\ pc' = IF r.raised THEN "raised" ELSE "returned"
        /\ UNCHANGED <<validatorVars, typeVars, data_file, table_name, outputVars, scriptVars>>

Next == \E file \in FilesAt(data_file) : GenerateSchema(file)

Spec == Init /\ [][Next]_vars

\* how many elements of a sequence equal x
Count(seq, x) == Cardinality({i \in DOMAIN seq : seq[i] = x})

NamesOf(seq) == [i \in 1..Len(seq) |-> seq[i].name]

\* C1: when generate_schema has returned, every source field is in exactly
\* one of the accepted list (bq_schema, whose names are valid_columns) and the
\* rejected list (skipped_columns), so the two lengths add up to the number
\* of source fields.
C1_Partition ==
    pc = "returned" =>
        /\ Len(bq_schema) + Len(skipped_columns) = Len(arrow_schema)
        /\ valid_columns = NamesOf(bq_schema)
        /\ \A i \in DOMAIN arrow_schema :
              LET name     == arrow_schema[i].name
                  accepted == Count(valid_columns, name)
                  rejected == Count(NamesOf(skipped_columns), name)
              IN  /\ accepted + rejected = Count(NamesOf(arrow_schema), name)
                  /\ accepted = 0 \/ rejected = 0

\* a call that accepted one column and rejected two
C1_Witness ==
    /\ pc = "returned"
    /\ Len(arrow_schema) = 3
    /\ Len(bq_schema) = 1
    /\ Len(skipped_columns) = 2

\* C2: both outputs keep the source order: the accepted list is the source
\* list with the rejected fields taken out, and the rejected list is the
\* source list with the accepted fields taken out.
C2_OrderPreserved ==
    pc = "returned" =>
        LET IsRejected(f) == \E k \in DOMAIN skipped_columns : skipped_columns[k].name = f.name
            IsAccepted(f) == \E k \in DOMAIN valid_columns : valid_columns[k] = f.name
        IN  /\ NamesOf(bq_schema) = NamesOf(SelectSeq(arrow_schema, IsAccepted))
            /\ valid_columns = NamesOf(SelectSeq(arrow_schema, IsAccepted))
            /\ NamesOf(skipped_columns) = NamesOf(SelectSeq(arrow_schema, IsRejected))
            /\ \A k \in DOMAIN skipped_columns :
                   skipped_columns[k].type = str_type(SelectSeq(arrow_schema, IsRejected)[k].type)

\* two different accepted columns with a rejected one between them
C2_Witness ==
    /\ pc = "returned"
    /\ Len(arrow_schema) = 3
    /\ Len(skipped_columns) = 1
    /\ valid_columns = <<arrow_schema[1].name, arrow_schema[3].name>>
    /\ arrow_schema[1].name # arrow_schema[3].name

\* C5 as claimed: after every call, returned or raised, the two lists hold
\* only what that call produced; a call that raised before it processed any
\* field leaves them empty.
C5_ListsFromLastCallOnly ==
    /\ pc = "raised" => (skipped_columns = <<>> /\ valid_columns = <<>>)
    /\ pc = "returned" =>
          Len(valid_columns) + Len(skipped_columns) = Len(arrow_schema)

\* C6: a returning call given the schema the first returning call was given
\* leaves the same bq_schema, skipped_columns and valid_columns as that call
\* did, whatever calls were made in between.
C6_Idempotent ==
    (pc = "returned" /\ first_call.made /\ arrow_schema = first_call.schema) =>
        /\ bq_schema = first_call.bq_schema
        /\ skipped_columns = first_call.skipped_columns
        /\ valid_columns = first_call.valid_columns

\* the first schema given again after a call on another file or a failed call
C6_Witness ==
    /\ pc = "returned"
    /\ first_call.made
    /\ first_call.others
    /\ arrow_schema = first_call.schema
    /\ skipped_columns # <<>>
    /\ bq_schema # <<>>
    /\ skipped_columns = first_call.skipped_columns

-----------------------------------------------------------------------------
(* generate_bigquery_schema_from_parquet, called once on a file *)

TableNames ==
    { <<"y", "o", "u", "r", "_", "t", "a", "b", "l", "e">>,
      <<"e", "x", "t", "e", "r", "n", "a", "l", "_", "d", "a", "t", "a">> }

InitTop ==
    /\ pc = "start"
    /\ data_file \in {ReadableFile(schema) : schema \in Schemas} \cup {MissingFile}
    /\ parquet_file = data_file
    /\ table_name \in TableNames
    /\ NewGenerator
    /\ NoValidation
    /\ NoMapping
    /\ NoOutput
    /\ NoScript

GenerateFromParquet ==
    LET r == generate_bigquery_schema_from_parquet(parquet_file, table_name)
    IN  /\ pc = "start"
        /\ arrow_schema' = r.arrow_schema
        /\ skipped_columns' = r.skipped_columns
        /\ valid_columns' = r.valid_columns
        /\ bq_schema' = r.bq_schema
        /\ summary' = r.summary
        /\ ddl' = r.ddl
        /\ outcome' = r.outcome
        /\ pc' = "done"
        /\ UNCHANGED <<validatorVars, typeVars, first_call, argumentVars, scriptVars>>

NextTop == GenerateFromParquet

SpecTop == InitTop /\ [][NextTop]_vars

\* C7: on a readable file the function raises exactly when no column was
\* accepted, that is when every source column is in the rejected list;
\* otherwise it returns the DDL string and one tuple for each accepted column.
C7_FailsIffNothingAccepted ==
    (pc = "done" /\ parquet_file.readable) =>
        /\ outcome.status \in {"raised", "returned"}
        /\ outcome.status = "raised" <=> bq_schema = <<>>
        /\ outcome.status = "raised" <=> Len(skipped_columns) = Len(arrow_schema)
        /\ outcome.status = "returned" =>
              /\ outcome.ddl # <<>>
              /\ Len(outcome.column_tuples) = Len(bq_schema)
              /\ Len(outcome.column_tuples) >= 1
              /\ outcome.error = <<>>

\* two columns rejected, one accepted, and the call returns
C7_Witness ==
    /\ pc = "done"
    /\ parquet_file.readable
    /\ Len(skipped_columns) = 2
    /\ Len(bq_schema) = 1
    /\ outcome.status = "returned"
    /\ Len(outcome.column_tuples) = 1

\* C8 as claimed: when every column of a readable file was rejected, the
\* exception raised carries the number of rejected columns and the rejection
\* records themselves.
C8_ErrorCarriesRejections ==
    (pc = "done" /\ parquet_file.readable /\ arrow_schema # <<>>
        /\ Len(skipped_columns) = Len(arrow_schema)) =>
        /\ outcome.status = "raised"
        /\ \E i \in DOMAIN outcome.error :
              /\ outcome.error[i].kind = "count"
              /\ outcome.error[i].count = Len(skipped_columns)
        /\ \A k \in DOMAIN skipped_columns :
              \E i \in DOMAIN outcome.error :
                  /\ outcome.error[i].kind = "rejection"
                  /\ outcome.error[i].list = <<skipped_columns[k]>>

-----------------------------------------------------------------------------
(* generate_ddl on what generate_schema returns for a file *)

InitDdl ==
    /\ pc = "start"
    /\ data_file \in {ReadableFile(schema) : schema \in Schemas}
    /\ parquet_file = data_file
    /\ table_name \in TableNames
    /\ NewGenerator
    /\ NoValidation
    /\ NoMapping
    /\ NoOutput
    /\ NoScript

\* schema = generator.generate_schema(file); generator.generate_ddl(schema, table)
GenerateDdl ==
    LET r == generate_schema([skipped_columns |-> <<>>, valid_columns |-> <<>>],
                             parquet_file)
    IN  /\ pc = "start"
        /\ arrow_schema' = r.arrow_schema
        /\ skipped_columns' = r.skipped_columns
        /\ valid_columns' = r.valid_columns
        /\ bq_schema' = r.bq_schema
        /\ ddl' = generate_ddl(r.bq_schema, table_name)
        /\ pc' = "ddl"
        /\ UNCHANGED <<validatorVars, typeVars, first_call, argumentVars, summary, outcome, scriptVars>>

NextDdl == GenerateDdl

SpecDdl == InitDdl /\ [][NextDdl]_vars

\* the text cut at every newline
RECURSIVE SplitLines(_)
SplitLines(text) ==
    IF \A i \in DOMAIN text : text[i] # "\n"
    THEN <<text>>
    ELSE LET i == CHOOSE k \in DOMAIN text :
                      text[k] = "\n" /\ \A j \in 1..(k - 1) : text[j] # "\n"
         IN  <<SubSeq(text, 1, i - 1)>> \o SplitLines(SubSeq(text, i + 1, Len(text)))

EndsWith(s, suffix) ==
    /\ Len(s) >= Len(suffix)
    /\ SubSeq(s, Len(s) - Len(suffix) + 1, Len(s)) = suffix

NotNullSuffix == <<" ", "N", "O", "T", " ", "N", "U", "L", "L">>

\* the lines between the CREATE TABLE line and the closing line that hold text
FieldLines(text) ==
    LET lines == SplitLines(text)
        HasText(line) == line # <<>>
    IN  SelectSeq(SubSeq(lines, 2, Len(lines) - 1), HasText)

\* the source fields that were accepted, in source order
AcceptedSource ==
    LET IsAccepted(f) == \E k \in DOMAIN valid_columns : valid_columns[k] = f.name
    IN  SelectSeq(arrow_schema, IsAccepted)

\* C10: the DDL has one line for each accepted field, in the order of the
\* accepted list; every line but the last ends with a comma; a line holds the
\* field's quoted name and type and ends with ' NOT NULL' exactly when the
\* field's mode is REQUIRED, which is exactly when the source field is not
\* nullable.
C10_DdlLines ==
    pc = "ddl" =>
        LET lines == SplitLines(ddl)
            fields == FieldLines(ddl)
            n == Len(bq_schema)
        IN  /\ Len(lines) >= 3
            /\ lines[Len(lines)] = <<")", ";">>
            /\ Len(fields) = n
            /\ \A i \in 1..n :
                  LET line == fields[i]
                      comma == line[Len(line)] = ","
                      core == IF comma THEN SubSeq(line, 1, Len(line) - 1) ELSE line
                      named == <<" ", " ", Backtick>> \o bq_schema[i].name
                               \o <<Backtick, " ">> \o bq_schema[i].type
                  IN  /\ comma <=> i < n
                      /\ core \in {named, named \o NotNullSuffix}
                      /\ EndsWith(core, NotNullSuffix) <=> bq_schema[i].mode = "REQUIRED"
                      /\ bq_schema[i].mode \in {"REQUIRED", "NULLABLE"}
                      /\ bq_schema[i].mode = "REQUIRED" <=> ~AcceptedSource[i].nullable

\* a required column, a rejected one and a nullable one: two lines, the first
\* with NOT NULL and a comma, the second with neither
C10_Witness ==
    /\ pc = "ddl"
    /\ Len(arrow_schema) = 3
    /\ Len(bq_schema) = 2
    /\ bq_schema[1].mode = "REQUIRED"
    /\ bq_schema[2].mode = "NULLABLE"
    /\ Len(FieldLines(ddl)) = 2
    /\ EndsWith(FieldLines(ddl)[1], NotNullSuffix \o <<",">>)
    /\ ~EndsWith(FieldLines(ddl)[2], NotNullSuffix)

-----------------------------------------------------------------------------
(* Reading a DDL string back *)

\* the text cut at every occurrence of sep
RECURSIVE SplitOn(_, _)
SplitOn(text, sep) ==
    LET at == {k \in 1..(Len(text) - Len(sep) + 1) :
                  SubSeq(text, k, k + Len(sep) - 1) = sep}
    IN  IF at = {}
        THEN <<text>>
        ELSE LET i == CHOOSE k \in at : \A j \in at : k <= j
             IN  <<SubSeq(text, 1, i - 1)>>
                 \o SplitOn(SubSeq(text, i + Len(sep), Len(text)), sep)

Unreadable == [name |-> <<>>, type |-> <<>>, not_null |-> FALSE, ok |-> FALSE]

\* one field definition read back: two spaces, the name between backquotes,
\* a space, the type, and NOT NULL or nothing
ParseField(line) ==
    LET open == <<" ", " ", Backtick>>
        rest == SubSeq(line, Len(open) + 1, Len(line))
        quotes == {k \in DOMAIN rest : rest[k] = Backtick}
    IN  IF ~startswith(line, open) \/ quotes = {}
        THEN Unreadable
        ELSE LET q == CHOOSE k \in quotes : \A j \in quotes : k <= j
                 after == SubSeq(rest, q + 1, Len(rest))
                 typed == SubSeq(after, 2, Len(after))
                 not_null == EndsWith(typed, NotNullSuffix)
             IN  IF after = <<>> \/ after[1] # " "
                 THEN Unreadable
                 ELSE [name |-> SubSeq(rest, 1, q - 1),
                       type |-> IF not_null
                                THEN SubSeq(typed, 1, Len(typed) - Len(NotNullSuffix))
                                ELSE typed,
                       not_null |-> not_null,
                       ok |-> TRUE]

\* the statement read back, knowing the table name: the CREATE TABLE line and
\* the closing line are taken off and what lies between is cut at ',\n'
ParseDdl(text, table) ==
    LET header == <<"C", "R", "E", "A", "T", "E", " ", "T", "A", "B", "L", "E", " ", Backtick>>
                  \o table \o <<Backtick, " ", "(", "\n">>
        closing == <<"\n", ")", ";">>
        body == SubSeq(text, Len(header) + 1, Len(text) - Len(closing))
        parts == SplitOn(body, <<",", "\n">>)
    IN  IF ~startswith(text, header) \/ ~EndsWith(text, closing)
        THEN <<Unreadable>>
        ELSE IF body = <<>>
        THEN <<>>
        ELSE [i \in 1..Len(parts) |-> ParseField(parts[i])]

\* what the accepted list says of each field: name, type, and whether REQUIRED
Written(schema) ==
    [i \in 1..Len(schema) |->
        [name |-> schema[i].name, type |-> schema[i].type,
         not_null |-> schema[i].mode = "REQUIRED", ok |-> TRUE]]

\* C11: reading back the string generate_ddl returns for an accepted list
\* gives that list's names, types and nullability markers, in the same order.
C11_DdlRoundTrip ==
    pc = "ddl" => ParseDdl(ddl, table_name) = Written(bq_schema)

\* a required column and a nullable array column, read back as written
C11_Witness ==
    /\ pc = "ddl"
    /\ Len(bq_schema) = 2
    /\ bq_schema[1].mode = "REQUIRED"
    /\ bq_schema[2].type = ARRAY_OPEN \o BQ_STRING \o ARRAY_CLOSE
    /\ Len(skipped_columns) = 1
    /\ ParseDdl(ddl, table_name) = Written(bq_schema)
    /\ ParseDdl(ddl, table_name)[1].not_null
    /\ ~ParseDdl(ddl, table_name)[2].not_null

-----------------------------------------------------------------------------
(* BigQueryEmulatorExternalTable._wait_for_services *)

max_retries == 60

\* what requests.get gives: a response with status 200, a response with
\* another status, or the exception requests.exceptions.ConnectionError
Answers == {"200", "503", "ConnectionError"}

\* One round of polling: the emulator is asked first; the file server is asked
\* only when that did not raise.
PollRounds ==
    {[bq |-> b, file |-> f] : b \in Answers \ {"ConnectionError"}, f \in Answers}
    \cup {[bq |-> "ConnectionError", file |-> "none"]}

\* a wrong loop body: the except clause is missing, a connection error leaves
\* the function at once
wait_round_no_except(count, round) ==
    IF round.bq = "200" /\ round.file = "200"
    THEN [pc |-> "wait_returned", retry_count |-> count]
    ELSE IF "ConnectionError" \in {round.bq, round.file}
    THEN [pc |-> "wait_raised", retry_count |-> count]
    ELSE IF count + 1 < max_retries
    THEN [pc |-> "wait", retry_count |-> count + 1]
    ELSE [pc |-> "wait_raised", retry_count |-> count + 1]

\* the body of `while retry_count < max_retries` for one round, and the test
\* of the loop that follows it: return, go round again, or fall out of the
\* loop into the raise
wait_round(count, round) ==
    IF round.bq = "200" /\ round.file = "200"
    THEN [pc |-> "wait_returned", retry_count |-> count]
    ELSE IF count + 1 < max_retries
    THEN [pc |-> "wait", retry_count |-> count + 1]
    ELSE [pc |-> "wait_raised", retry_count |-> count + 1]

WaitRound(round) ==
    LET r == wait_round(retry_count, round)
    IN  /\ pc = "wait"
        /\ retry_count < max_retries
        /\ polls' = polls + 1
        /\ bq_response' = round.bq
        /\ file_response' = round.file
        /\ retry_count' = r.retry_count
        /\ pc' = r.pc
        /\ UNCHANGED <<validatorVars, typeVars, generatorVars, argumentVars, outputVars,
                       mainVars>>

InitWait ==
    /\ pc = "wait"
    /\ NoValidation
    /\ NoMapping
    /\ NewGenerator
    /\ NoArguments
    /\ NoOutput
    /\ NoScript

NextWait == \E round \in PollRounds : WaitRound(round)

\* each round ends: requests.get answers or raises, and time.sleep(2) returns
SpecWait == InitWait /\ [][NextWait]_vars /\ WF_vars(NextWait)

RoundSucceeded == bq_response = "200" /\ file_response = "200"

\* C14: the function ends; it begins at most 60 rounds; it returns only in a
\* round in which both servers answered 200, and raises only after 60 rounds
\* none of which did; a round with a connection error or another status is
\* followed by the next round as long as fewer than 60 have been made.
C14_WaitTerminates ==
    /\ <>(pc \in {"wait_returned", "wait_raised"})
    /\ [](/\ polls <= max_retries
          /\ pc = "wait_returned" => RoundSucceeded
          /\ pc = "wait_raised" => (polls = max_retries /\ retry_count = max_retries
                                    /\ ~RoundSucceeded)
          /\ (pc = "wait" /\ polls > 0) => (~RoundSucceeded /\ polls < max_retries)
          /\ (polls > 0 /\ ~RoundSucceeded /\ polls < max_retries) => pc = "wait"
          /\ pc = "wait" => retry_count = polls)

\* the 60th round ends with a connection error and the function raises
C14_Witness ==
    /\ pc = "wait_raised"
    /\ polls = max_retries
    /\ bq_response = "ConnectionError"

-----------------------------------------------------------------------------
(* The emulator's methods, as main uses them.  Each gives the calls, requests
   and commands it makes, in order, and whether it raised. *)

\* what a request gives: the status the method takes as success, another
\* status, or an exception raised by requests
Responses == {"ok", "refused", "ConnectionError"}

Ran(raised, made) == [raised |-> raised, effects |-> made]

\* stop_services: the command may fail or raise; neither leaves the method
stop_services == Ran(FALSE, <<"stop_services", "docker compose down">>)

\* start_services up to the call of _wait_for_services: `up` is "ok",
\* "refused" (returncode # 0) or "ConnectionError" (subprocess.run raised)
start_services(up) ==
    Ran(up # "ok", <<"start_services", "docker compose down", "docker compose up">>)

\* ensure_dataset_exists: GET the dataset, POST it when the GET was not 200
ensure_dataset_exists(get, post) ==
    IF get = "ok" THEN Ran(FALSE, <<"ensure_dataset_exists", "GET dataset">>)
    ELSE IF get = "ConnectionError"
    THEN Ran(TRUE, <<"ensure_dataset_exists", "GET dataset">>)
    ELSE Ran(post # "ok", <<"ensure_dataset_exists", "GET dataset", "POST dataset">>)

\* whether generate_bigquery_schema_from_parquet raises on the file
SchemaFails(file, table) ==
    generate_bigquery_schema_from_parquet(file, table).outcome.status = "raised"

\* create_external_table: the schema, the HEAD check that only warns, the POST
create_external_table(file, table, post) ==
    IF SchemaFails(file, table)
    THEN Ran(TRUE, <<"create_external_table">>)
    ELSE Ran(post # "ok", <<"create_external_table", "HEAD file", "POST external table">>)

\* create_regular_table_with_data: the schema, pd.read_parquet, the POST and,
\* when that gave 200, _load_data_to_table
create_regular_table_with_data(file, table, post, load) ==
    IF SchemaFails(file, table) \/ ~file.readable
    THEN Ran(TRUE, <<"create_regular_table_with_data">>)
    ELSE IF post # "ok"
    THEN Ran(TRUE, <<"create_regular_table_with_data", "POST regular table">>)
    ELSE Ran(load # "ok",
             <<"create_regular_table_with_data", "POST regular table", "POST insertAll">>)

\* query_table: raises unless the POST gave 200
query_table(post) == Ran(post # "ok", <<"query_table", "POST query">>)

\* get_table_info: raises unless the GET gave 200
get_table_info(get) == Ran(get # "ok", <<"get_table_info", "GET table">>)

\* a wrong cleanup_table: a status other than 204 raises
cleanup_table_strict(delete) == Ran(delete # "ok", <<"cleanup_table", "DELETE table">>)

\* cleanup_table: a status other than 204 is only warned about; an exception
\* of requests.delete leaves the method
cleanup_table(delete) ==
    Ran(delete = "ConnectionError", <<"cleanup_table", "DELETE table">>)

\* a wrong handler: the services are left running
on_exception_forgets(keep) == <<>>

\* the except clause of main: `if not args.keep_running: emulator.stop_services()`
on_exception(keep) == IF keep THEN <<>> ELSE stop_services.effects

-----------------------------------------------------------------------------
(* main, from the try statement on *)

\* the parquet files main is run on: they exist; one cannot be read as
\* parquet and one has no acceptable column
RejectedFile == ReadableFile(<< Field(<<>>, <<"int32">>, TRUE) >>)

CorruptFile == [readable |-> FALSE, schema |-> <<>>]

MainFiles == {CleanFile, ProblematicFile, RejectedFile, CorruptFile}

InitMain ==
    /\ pc = "start_services"
    /\ data_file \in MainFiles
    /\ parquet_file = data_file
    /\ table_name = <<"e", "x", "t", "e", "r", "n", "a", "l", "_", "d", "a", "t", "a">>
    /\ keep_running \in BOOLEAN
    /\ use_regular_table \in BOOLEAN
    /\ effects = <<>>
    /\ delete_response = "none"
    /\ NoWait
    /\ NoValidation
    /\ NoMapping
    /\ NewGenerator
    /\ NoOutput

MainUnchanged ==
    UNCHANGED <<validatorVars, typeVars, generatorVars, argumentVars, outputVars,
                keep_running, use_regular_table>>

\* a step of main that calls one method: on to `next`, or into the handler
Call(r, next) ==
    /\ effects' = effects \o r.effects
    /\ pc' = IF r.raised THEN "except" ELSE next

\* line 407, up to the wait
StartServices(up) ==
    /\ pc = "start_services"
    /\ Call(start_services(up), "wait")
    /\ UNCHANGED <<delete_response, waitVars>>
    /\ MainUnchanged

\* line 61: one round of the wait inside start_services
MainWaitRound(round) ==
    /\ WaitRound(round)
    /\ UNCHANGED mainVars

\* line 410
EnsureDataset(get, post) ==
    /\ pc = "wait_returned"
    /\ Call(ensure_dataset_exists(get, post), "create_table")
    /\ UNCHANGED <<delete_response, waitVars>>
    /\ MainUnchanged

\* line 415
CreateRegular(post, load) ==
    /\ pc = "create_table"
    /\ use_regular_table
    /\ Call(create_regular_table_with_data(parquet_file, table_name, post, load),
            "table_info")
    /\ UNCHANGED <<delete_response, waitVars>>
    /\ MainUnchanged

\* line 418
CreateExternal(post) ==
    /\ pc = "create_table"
    /\ ~use_regular_table
    /\ Call(create_external_table(parquet_file, table_name, post), "probe")
    /\ UNCHANGED <<delete_response, waitVars>>
    /\ MainUnchanged

\* lines 421-422: the probe query and the test of its rows
Probe(post, rows) ==
    /\ pc = "probe"
    /\ Call(query_table(post), IF rows THEN "table_info" ELSE "cleanup_external")
    /\ UNCHANGED <<delete_response, waitVars>>
    /\ MainUnchanged

\* line 426
CleanupExternal(delete) ==
    /\ pc = "cleanup_external"
    /\ Call(cleanup_table(delete), "create_fallback")
    /\ delete_response' = delete
    /\ UNCHANGED waitVars
    /\ MainUnchanged

\* line 428
CreateFallback(post, load) ==
    /\ pc = "create_fallback"
    /\ Call(create_regular_table_with_data(parquet_file, table_name, post, load),
            "table_info")
    /\ UNCHANGED <<delete_response, waitVars>>
    /\ MainUnchanged

\* lines 431-439: the lookup, then the keys read from what it returned
TableInfo(get, well_formed) ==
    /\ pc = "table_info"
    /\ LET r == get_table_info(get)
       IN  Call(Ran(r.raised \/ ~well_formed, r.effects), "query")
    /\ UNCHANGED <<delete_response, waitVars>>
    /\ MainUnchanged

\* lines 442-443
Query(post, well_formed) ==
    /\ pc = "query"
    /\ LET r == query_table(post)
       IN  Call(Ran(r.raised \/ ~well_formed, r.effects), "finish")
    /\ UNCHANGED <<delete_response, waitVars>>
    /\ MainUnchanged

\* lines 454-463
Finish(delete) ==
    /\ pc = "finish"
    /\ IF keep_running
       THEN /\ pc' = "exit_0"
            /\ UNCHANGED effects
       ELSE LET c == cleanup_table(delete)
            IN  IF c.raised
                THEN Call(c, "exit_0")
                ELSE /\ effects' = effects \o c.effects \o stop_services.effects
                     /\ pc' = "exit_0"
    /\ UNCHANGED <<delete_response, waitVars>>
    /\ MainUnchanged

\* lines 465-469; start_services raises when the wait inside it did
OnException ==
    /\ pc \in {"except", "wait_raised"}
    /\ effects' = effects \o on_exception(keep_running)
    /\ pc' = "exit_1"
    /\ UNCHANGED <<delete_response, waitVars>>
    /\ MainUnchanged

NextMain ==
    \/ \E up \in Responses : StartServices(up)
    \/ \E round \in PollRounds : MainWaitRound(round)
    \/ \E get \in Responses, post \in Responses : EnsureDataset(get, post)
    \/ \E post \in Responses, load \in Responses : CreateRegular(post, load)
    \/ \E post \in Responses : CreateExternal(post)
    \/ \E post \in Responses, rows \in BOOLEAN : Probe(post, rows)
    \/ \E delete \in Responses : CleanupExternal(delete)
    \/ \E post \in Responses, load \in Responses : CreateFallback(post, load)
    \/ \E get \in Responses, well_formed \in BOOLEAN : TableInfo(get, well_formed)
    \/ \E post \in Responses, well_formed \in BOOLEAN : Query(post, well_formed)
    \/ \E delete \in Responses : Finish(delete)
    \/ OnException

SpecMain == InitMain /\ [][NextMain]_vars

-----------------------------------------------------------------------------
(* Claims about main *)

Exited == pc \in {"exit_0", "exit_1"}

\* the places of the trace where `made` was done
Places(made) == {i \in DOMAIN effects : effects[i] = made}

Before(first, then) ==
    \A i \in Places(then) : \E j \in Places(first) : j < i

\* the trace ends with the call of stop_services and its command
StoppedLast ==
    /\ Len(effects) >= 2
    /\ effects[Len(effects) - 1] = "stop_services"
    /\ effects[Len(effects)] = "docker compose down"

\* C12: without --keep-running, a run of main that has left the try statement
\* has invoked stop_services, once and as the last thing it did: on the success
\* path right after cleanup_table, on a failure path from the exception
\* handler whatever failed; stop_services is not invoked earlier, and with
\* --keep-running it is never invoked.
C12_StopServicesBeforeExit ==
    /\ keep_running => Places("stop_services") = {}
    /\ ~Exited => Places("stop_services") = {}
    /\ (~keep_running /\ Exited) =>
          /\ Count(effects, "stop_services") = 1
          /\ StoppedLast
    /\ (~keep_running /\ pc = "exit_0") =>
          /\ Len(effects) >= 4
          /\ effects[Len(effects) - 3] = "cleanup_table"
          /\ effects[Len(effects) - 2] = "DELETE table"

\* a run without --keep-running whose final query failed has stopped the services
C12_Witness ==
    /\ pc = "exit_1"
    /\ ~keep_running
    /\ Len(effects) >= 3
    /\ effects[Len(effects) - 2] = "POST query"
    /\ "get_table_info" \in Range(effects)
    /\ StoppedLast

\* C13: on the external-table path the request that creates the regular table
\* comes only after the delete request (and the call of
\* create_regular_table_with_data only after the call of cleanup_table), the
\* delete request comes only after the probe query, and once the delete was
\* answered, with 204 or with another status, the creation of the regular
\* table is the next step of main.
C13_DeleteThenCreate ==
    ~use_regular_table =>
        /\ Before("DELETE table", "POST regular table")
        /\ Before("cleanup_table", "create_regular_table_with_data")
        /\ Before("POST query", "DELETE table")
        /\ delete_response \in {"ok", "refused"} =>
              \/ pc = "create_fallback"
              \/ "create_regular_table_with_data" \in Range(effects)
        /\ pc = "create_fallback" => delete_response \in {"ok", "refused"}

\* the delete was answered with a status other than 204 and the regular table
\* was created all the same
C13_Witness ==
    /\ ~use_regular_table
    /\ delete_response = "refused"
    /\ "POST regular table" \in Range(effects)
    /\ "POST insertAll" \in Range(effects)

=============================================================================
